---- MODULE Spec2Model ----
(***************************************************************************)
(* Model of fw/src/mgos_sntp.c: the SNTP retry scheduler of Mongoose OS.   *)
(*                                                                         *)
(* The program state is struct mgos_sntp_state (s_state).  Around it the   *)
(* model keeps the three collaborators the file talks to: the connection   *)
(* manager (live SNTP connections, their MG_F_CLOSE_IMMEDIATELY flag and   *)
(* the events it delivers to mgos_sntp_ev), the timer service (pending     *)
(* one-shot timers) and the system clock.  Every handler of the file runs  *)
(* to completion on the single event loop, so every handler is one action. *)
(***************************************************************************)
EXTENDS Integers, Sequences, FiniteSets, TLC

\* ---------------------------------------------------------------- bounds
MaxRetrySec == 2      \* sntp.retry_min and sntp.retry_max range over 0..MaxRetrySec
MaxTime == 1          \* clock readings and server times range over 0..MaxTime
MaxCbs == 2           \* callbacks registered by other subsystems
MaxConns == 2         \* connection slots of the connection manager
MaxTimers == 2        \* timer slots of the timer service
MaxFires == 10        \* cap of the counter of timer fires before the first reply

\* ------------------------------------------------------------- constants
NULL == 0                       \* a null struct mg_connection pointer
MGOS_INVALID_TIMER_ID == 0      \* the "no timer" sentinel of mgos_timers.h
MgosTimeChangeCb == 0           \* mgos_time_change_cb, registered by mgos_sntp_init

VARIABLES
  cfg,               \* get_cfg()->sntp: enable, server, update_interval, retry_min, retry_max
  init_result,       \* return value of mgos_sntp_init, "none" before it ran
  net_handler,       \* mgos_sntp_net_ev is registered with mgos_net
  nc,                \* s_state.nc
  synced,            \* s_state.synced
  retry_timeout_ms,  \* s_state.retry_timeout_ms
  retry_timer_id,    \* s_state.retry_timer_id
  time_change_cbs,   \* s_state.time_change_cbs, head first
  conn,              \* connection manager: live SNTP connections -> [close, stage]
  timers,            \* timer service: pending timers -> [delay, base]
  clock,             \* system clock (mg_time / settimeofday), whole seconds
  ev,                \* observation: the handler that ran last
  log,               \* observation: calls made by the handler that ran last
  notified,          \* observation: <<cb, delta>> invocations by the handler that ran last
  registered,        \* observation: callbacks in the order they were registered
  fires              \* observation: timer fires before the first reply, capped

vars == <<cfg, init_result, net_handler, nc, synced, retry_timeout_ms,
          retry_timer_id, time_change_cbs, conn, timers, clock, ev, log,
          notified, registered, fires>>

\* ---------------------------------------------------------------- helpers
Min(a, b) == IF a < b THEN a ELSE b

RECURSIVE Reverse(_)
Reverse(s) == IF s = <<>> THEN <<>> ELSE Append(Reverse(Tail(s)), Head(s))

Times == 0..MaxTime
ConnIds == 1..MaxConns
TimerIds == 1..MaxTimers
JitterChoices == {"lo", "hi"}

\* The configurations explored: every small combination, and the one of the
\* backoff scenario (retry_min = 10 s, retry_max = 300 s).
ScenarioCfg ==
  [enable |-> TRUE, server |-> TRUE, update_interval |-> 7200,
   retry_min |-> 10, retry_max |-> 300]

SmallCfgs ==
  [enable : BOOLEAN, server : BOOLEAN, update_interval : {MaxRetrySec + 1},
   retry_min : 0..MaxRetrySec, retry_max : 0..MaxRetrySec]

Cfgs == SmallCfgs \cup {ScenarioCfg}

\* The machine state handed from one call of a handler to the next.
State ==
  [nc |-> nc, synced |-> synced, retry_timeout_ms |-> retry_timeout_ms,
   retry_timer_id |-> retry_timer_id, time_change_cbs |-> time_change_cbs,
   conn |-> conn, timers |-> timers, clock |-> clock, log |-> <<>>,
   notified |-> <<>>, registered |-> registered, fires |-> fires]

\* The handler returned the machine state after: it is computed once and
\* becomes the next state.
Commit(after, e) ==
  \E m \in {after} :
    /\ nc' = m.nc
    /\ synced' = m.synced
    /\ retry_timeout_ms' = m.retry_timeout_ms
    /\ retry_timer_id' = m.retry_timer_id
    /\ time_change_cbs' = m.time_change_cbs
    /\ conn' = m.conn
    /\ timers' = m.timers
    /\ clock' = m.clock
    /\ log' = m.log
    /\ notified' = m.notified
    /\ registered' = m.registered
    /\ fires' = m.fires
    /\ ev' = e
    /\ UNCHANGED <<cfg, init_result, net_handler>>

\* F applied to the value of x, with x computed once.
Bind(x, F(_)) == CHOOSE r \in {F(v) : v \in {x}} : TRUE

Logged(m, what) == [m EXCEPT !.log = Append(@, what)]

\* ------------------------------------------------------- timer service
\* mgos_set_timer(msecs, 0, cb, NULL): a fresh id for a pending one-shot timer.
FreeTimerIds(m) == TimerIds \ DOMAIN m.timers

mgos_set_timer(m, delay, base) ==
  IF FreeTimerIds(m) = {} THEN MGOS_INVALID_TIMER_ID
  ELSE CHOOSE id \in FreeTimerIds(m) : \A other \in FreeTimerIds(m) : id <= other

TimerAdd(m, id, delay, base) ==
  IF id = MGOS_INVALID_TIMER_ID THEN m.timers
  ELSE [t \in DOMAIN m.timers \cup {id} |->
          IF t = id THEN [delay |-> delay, base |-> base] ELSE m.timers[t]]

\* mgos_clear_timer(id)
mgos_clear_timer(m, id) ==
  [m EXCEPT !.timers = [t \in DOMAIN m.timers \ {id} |-> m.timers[t]]]

\* mgos_rand_range(rt_ms * 0.9, rt_ms * 1.1), truncated to int: the two ends
\* of the range stand for the draw.
Jitter(rt_ms, j) ==
  IF j = "lo" THEN (rt_ms * 9) \div 10 ELSE (rt_ms * 11) \div 10

\* ------------------------------------------------------- mgos_sntp_retry
\* Mutant: the cut to retry_max is missing.
Backoff_NoCut(prev_ms) ==
  LET doubled == prev_ms * 2
  IN  IF doubled < cfg.retry_min * 1000 THEN cfg.retry_min * 1000 ELSE doubled

\* Mutant: the previous timeout is not doubled.
Backoff_NoDouble(prev_ms) ==
  LET raised == IF prev_ms < cfg.retry_min * 1000 THEN cfg.retry_min * 1000 ELSE prev_ms
  IN  IF raised > cfg.retry_max * 1000 THEN cfg.retry_max * 1000 ELSE raised

\* Mutant: cut to retry_max first, raise to retry_min last.
Backoff_RaiseLast(prev_ms) ==
  LET doubled == prev_ms * 2
      cut == IF doubled > cfg.retry_max * 1000 THEN cfg.retry_max * 1000 ELSE doubled
  IN  IF cut < cfg.retry_min * 1000 THEN cfg.retry_min * 1000 ELSE cut

\* Lines 117-123: double, raise to retry_min, then cut to retry_max.
Backoff(prev_ms) ==
  LET doubled == prev_ms * 2
      raised == IF doubled < cfg.retry_min * 1000 THEN cfg.retry_min * 1000 ELSE doubled
  IN  IF raised > cfg.retry_max * 1000 THEN cfg.retry_max * 1000 ELSE raised

\* Mutant: the synced branch (lines 114-115) is missing.
RetryBase_AlwaysBackoff(m) == Backoff(m.retry_timeout_ms)

\* Lines 114-123.
RetryBase(m) ==
  IF m.synced THEN cfg.update_interval * 1000 ELSE Backoff(m.retry_timeout_ms)

\* Mutant: the check for an armed timer (line 112) is missing.
mgos_sntp_retry_NoArmedCheck(m, j) ==
  LET m0 == Logged(m, "mgos_sntp_retry") IN
  IF ~cfg.enable THEN m0
  ELSE
    LET rt_ms == RetryBase(m0)
        m1 == IF m0.synced THEN m0 ELSE [m0 EXCEPT !.retry_timeout_ms = rt_ms]
        delay == Jitter(rt_ms, j)
        id == mgos_set_timer(m1, delay, rt_ms)
    IN  [Logged(m1, "mgos_set_timer") EXCEPT
           !.timers = TimerAdd(m1, id, delay, rt_ms),
           !.retry_timer_id = id]

mgos_sntp_retry(m, j) ==
  LET m0 == Logged(m, "mgos_sntp_retry") IN
  IF ~cfg.enable THEN m0
  ELSE IF m0.retry_timer_id # MGOS_INVALID_TIMER_ID THEN m0
  ELSE
    LET rt_ms == RetryBase(m0)
        m1 == IF m0.synced THEN m0 ELSE [m0 EXCEPT !.retry_timeout_ms = rt_ms]
        delay == Jitter(rt_ms, j)
        id == mgos_set_timer(m1, delay, rt_ms)
    IN  [Logged(m1, "mgos_set_timer") EXCEPT
           !.timers = TimerAdd(m1, id, delay, rt_ms),
           !.retry_timer_id = id]

\* ------------------------------------------------------- mgos_sntp_query
FreeConnIds(m) == ConnIds \ DOMAIN m.conn

\* mg_sntp_connect: a new connection in the manager, or NULL.
mg_sntp_connect(m, ok) ==
  IF ~ok \/ FreeConnIds(m) = {} THEN NULL
  ELSE CHOOSE c \in FreeConnIds(m) : \A other \in FreeConnIds(m) : c <= other

ConnAdd(m, c) ==
  IF c = NULL THEN m.conn
  ELSE [x \in DOMAIN m.conn \cup {c} |->
          IF x = c THEN [close |-> FALSE, stage |-> "connecting"] ELSE m.conn[x]]

\* nc->flags |= MG_F_CLOSE_IMMEDIATELY
SetCloseFlag(m, c) ==
  IF c \in DOMAIN m.conn
  THEN [Logged(m, "close_request") EXCEPT !.conn[c].close = TRUE]
  ELSE m

\* Mutant: the query does not look for an active session.
QueryGuard_Never(m) == FALSE

\* Line 88.
QueryGuard(m) == m.nc # NULL

\* Mutant: an active session is not asked to close (line 89 is missing).
mgos_sntp_query_NoCancel(m, ok) ==
  LET m0 == Logged(m, "mgos_sntp_query") IN
  IF QueryGuard(m0) THEN m0
  ELSE
    LET c == mg_sntp_connect(m0, ok)
    IN  [Logged(m0, "mg_sntp_connect") EXCEPT !.conn = ConnAdd(m0, c), !.nc = c]

mgos_sntp_query(m, ok) ==
  LET m0 == Logged(m, "mgos_sntp_query") IN
  IF QueryGuard(m0) THEN SetCloseFlag(m0, m0.nc)
  ELSE
    LET c == mg_sntp_connect(m0, ok)
    IN  [Logged(m0, "mg_sntp_connect") EXCEPT !.conn = ConnAdd(m0, c), !.nc = c]

\* ----------------------------------------------- mgos_sntp_retry_timer_cb
\* Observation only: one more run of the timer callback before the first reply.
CountFire(m) ==
  IF m.synced THEN m ELSE [m EXCEPT !.fires = Min(@ + 1, MaxFires)]

\* Mutant: the callback does not invalidate retry_timer_id (line 99).
mgos_sntp_retry_timer_cb_KeepId(m, ok, j) ==
  LET m1 == mgos_sntp_query(CountFire(m), ok)
  IN  mgos_sntp_retry(m1, j)

\* Mutant: the callback does not schedule the safety-net retry (line 105).
mgos_sntp_retry_timer_cb_NoSafetyNet(m, ok, j) ==
  LET m0 == [CountFire(m) EXCEPT !.retry_timer_id = MGOS_INVALID_TIMER_ID]
  IN  mgos_sntp_query(m0, ok)

\* Lines 99, 100 and 105: the state mgos_sntp_query leaves is the one
\* mgos_sntp_retry starts from.
mgos_sntp_retry_timer_cb(m, ok, j) ==
  LET m0 == [CountFire(m) EXCEPT !.retry_timer_id = MGOS_INVALID_TIMER_ID]
  IN  Bind(mgos_sntp_query(m0, ok), LAMBDA m1 : mgos_sntp_retry(m1, j))

\* ---------------------------------------------------------- mgos_sntp_ev
SetStage(m, c, stage) == [m EXCEPT !.conn[c].stage = stage]

\* case MG_EV_CONNECT
EvConnect(m, c) == SetStage(Logged(m, "mg_sntp_send_request"), c, "sent")

\* Lines 55-57: SLIST_FOREACH from the head of the list.
NotifyOrder(cbs) == cbs

NotifyAll(m, delta) ==
  LET order == NotifyOrder(m.time_change_cbs)
  IN  [m EXCEPT !.notified = [i \in 1..Len(order) |-> <<order[i], delta>>]]

\* Mutant: the local time is read after the clock was set.
Delta_AfterSet(m, time) == time - time

\* Lines 44-45: delta against the local time read before the clock is set.
Delta(m, time) == time - m.clock

\* Lines 61-62 (the observation counter fires is dropped with the backoff).
AfterReply(m) == [m EXCEPT !.retry_timeout_ms = 0, !.synced = TRUE, !.fires = 0]

\* Mutant: the pending retry timer is left armed.
ClearRetryTimer_Skip(m) == m

\* Mutant: the id is forgotten but the timer is not cleared (line 65 is missing).
ClearRetryTimer_OnlyId(m) ==
  [m EXCEPT !.retry_timer_id = MGOS_INVALID_TIMER_ID]

\* Lines 64-67.
ClearRetryTimer(m) ==
  IF m.retry_timer_id # MGOS_INVALID_TIMER_ID
  THEN [mgos_clear_timer(Logged(m, "mgos_clear_timer"), m.retry_timer_id) EXCEPT
          !.retry_timer_id = MGOS_INVALID_TIMER_ID]
  ELSE m

\* case MG_SNTP_REPLY
EvReply(m, c, time, set_ok) ==
  LET delta == Delta(m, time)
      m1 == IF set_ok
            THEN NotifyAll([Logged(m, "settimeofday") EXCEPT !.clock = time], delta)
            ELSE Logged(m, "settimeofday_failed")
      m2 == AfterReply(m1)
      m3 == SetCloseFlag(SetStage(m2, c, "replied"), c)
  IN  ClearRetryTimer(m3)

\* Mutant: an error falls back to the pre-sync regime.
EvError_Degrade(m, c, stage) ==
  [SetCloseFlag(SetStage(m, c, stage), c) EXCEPT !.synced = FALSE]

\* case MG_SNTP_MALFORMED_REPLY, case MG_SNTP_FAILED
EvError(m, c, stage) == SetCloseFlag(SetStage(m, c, stage), c)

\* Mutant: the comparison with the tracked session is inverted.
CloseGuard_Inverted(m, c) == m.nc # c

\* Line 77.
CloseGuard(m, c) == m.nc = c

\* case MG_EV_CLOSE; the manager frees the connection afterwards.
EvClose(m, c, j) ==
  LET m0 == IF CloseGuard(m, c)
            THEN mgos_sntp_retry(Logged([m EXCEPT !.nc = NULL], "nc=NULL"), j)
            ELSE m
  IN  [m0 EXCEPT !.conn = [x \in DOMAIN m0.conn \ {c} |-> m0.conn[x]]]

\* ---------------------------------------- mgos_sntp_add_time_change_cb
\* Mutant: the new entry goes to the tail of the list.
InsertHead_Tail(cbs, cb) == Append(cbs, cb)

\* SLIST_INSERT_HEAD
InsertHead(cbs, cb) == <<cb>> \o cbs

mgos_sntp_add_time_change_cb(m, cb) ==
  [m EXCEPT !.time_change_cbs = InsertHead(@, cb),
            !.registered = Append(@, cb)]

\* ------------------------------------------------------ mgos_sntp_net_ev
\* Mutant: the link-up handler runs the query itself before scheduling.
mgos_sntp_net_ev_Attempt(m, j) == mgos_sntp_retry(mgos_sntp_query(m, TRUE), j)

\* Lines 153-154, for ev = MGOS_NET_EV_IP_ACQUIRED.
mgos_sntp_net_ev(m, j) == mgos_sntp_retry(m, j)

\* ================================================================ actions
Init ==
  /\ cfg \in Cfgs
  /\ init_result = "none"
  /\ net_handler = FALSE
  /\ nc = NULL
  /\ synced = FALSE
  /\ retry_timeout_ms = 0
  /\ retry_timer_id = MGOS_INVALID_TIMER_ID
  /\ time_change_cbs = <<>>
  /\ conn = <<>>
  /\ timers = <<>>
  /\ clock \in Times
  /\ ev = "boot"
  /\ log = <<>>
  /\ notified = <<>>
  /\ registered = <<>>
  /\ fires = 0

\* Mutant: the check of sntp.server is missing.
InitArms_NoServerCheck == cfg.enable

\* mgos_sntp_init
InitResult ==
  IF ~cfg.enable THEN "MGOS_INIT_OK"
  ELSE IF ~cfg.server THEN "MGOS_INIT_SNTP_INIT_FAILED"
  ELSE "MGOS_INIT_OK"

InitArms == cfg.enable /\ cfg.server

MgosSntpInit ==
  /\ init_result = "none"
  /\ init_result' = InitResult
  /\ net_handler' = InitArms
  /\ LET m == IF InitArms
              THEN mgos_sntp_add_time_change_cb(State, MgosTimeChangeCb)
              ELSE State
     IN  /\ time_change_cbs' = m.time_change_cbs
         /\ registered' = m.registered
  /\ ev' = "mgos_sntp_init"
  /\ log' = <<>>
  /\ notified' = <<>>
  /\ UNCHANGED <<cfg, nc, synced, retry_timeout_ms, retry_timer_id, conn,
                 timers, clock, fires>>

\* Another subsystem registers a time-change callback; every registration
\* brings its own (cb, cb_arg) pair, numbered 1, 2, ... as they come.
UserCbs == {i \in 1..Len(registered) : registered[i] # MgosTimeChangeCb}

AddTimeChangeCb ==
  /\ Cardinality(UserCbs) < MaxCbs
  /\ Commit(mgos_sntp_add_time_change_cb(State, Cardinality(UserCbs) + 1),
            "mgos_sntp_add_time_change_cb")

\* MGOS_NET_EV_IP_ACQUIRED: delivered to mgos_sntp_net_ev when mgos_sntp_init
\* registered it, and lost on this module otherwise.
NetEv ==
  \E j \in JitterChoices :
    IF net_handler
    THEN Commit(mgos_sntp_net_ev(State, j), "mgos_sntp_net_ev")
    ELSE Commit(State, "link_up_unhandled")

\* A pending timer expires: the service drops it and runs the callback.
TimerFire ==
  \E t \in DOMAIN timers, ok \in BOOLEAN, j \in JitterChoices :
    Commit(mgos_sntp_retry_timer_cb(mgos_clear_timer(State, t), ok, j),
           "mgos_sntp_retry_timer_cb")

\* The connection manager delivers the events of a live connection.  The
\* Sync Client's contract: MG_EV_CONNECT once, then at most one outcome
\* (reply, malformed reply, failure; a failure may come before the connect
\* completed), and MG_EV_CLOSE once the connection is flagged for closing.
AwaitsConnect(c) == conn[c].stage = "connecting"
AwaitsReply(c) == conn[c].stage = "sent"
CanFail(c) == conn[c].stage \in {"connecting", "sent"}
Closing(c) == conn[c].close

ConnConnect ==
  \E c \in DOMAIN conn :
    /\ AwaitsConnect(c)
    /\ Commit(EvConnect(State, c), "MG_EV_CONNECT")

ConnReply ==
  \E c \in DOMAIN conn, time \in Times, set_ok \in BOOLEAN :
    /\ AwaitsReply(c)
    /\ Commit(EvReply(State, c, time, set_ok), "MG_SNTP_REPLY")

ConnMalformed ==
  \E c \in DOMAIN conn :
    /\ AwaitsReply(c)
    /\ Commit(EvError(State, c, "malformed"), "MG_SNTP_MALFORMED_REPLY")

ConnFailed ==
  \E c \in DOMAIN conn :
    /\ CanFail(c)
    /\ Commit(EvError(State, c, "failed"), "MG_SNTP_FAILED")

ConnClose ==
  \E c \in DOMAIN conn, j \in JitterChoices :
    /\ Closing(c)
    /\ Commit(EvClose(State, c, j), "MG_EV_CLOSE")

Next ==
  \/ MgosSntpInit
  \/ AddTimeChangeCb
  \/ NetEv
  \/ TimerFire
  \/ ConnConnect
  \/ ConnReply
  \/ ConnMalformed
  \/ ConnFailed
  \/ ConnClose

Spec == Init /\ [][Next]_vars

\* The event loop under the assumptions that a pending timer eventually
\* fires and that a connection flagged MG_F_CLOSE_IMMEDIATELY eventually
\* gets its MG_EV_CLOSE: weak fairness of TimerFire and of ConnClose.
\* Nothing is assumed about mg_sntp_connect: it may return NULL every time.
FairTimerFire == WF_vars(TimerFire)
FairConnClose == WF_vars(ConnClose)
SpecLive == Init /\ [][Next]_vars /\ FairTimerFire /\ FairConnClose

\* ================================================================= claims
InLog(what) == \E i \in 1..Len(log) : log[i] = what
CountLog(what) == Cardinality({i \in 1..Len(log) : log[i] = what})
Armed == retry_timer_id # MGOS_INVALID_TIMER_ID
InJitterRange(t) == t.base * 9 <= t.delay * 10 + 9 /\ t.delay * 10 <= t.base * 11

\* C1: at most one SNTP session exists at any instant and s_state.nc is its
\* handle; a session is created only by a timer fire that finds s_state.nc
\* NULL, and s_state.nc is cleared only by the close event of that session.
C1_SingleSession ==
  /\ [](/\ Cardinality(DOMAIN conn) <= 1
        /\ DOMAIN conn = (IF nc = NULL THEN {} ELSE {nc}))
  /\ [][/\ (DOMAIN conn' \ DOMAIN conn # {}) =>
             (nc = NULL /\ ev' = "mgos_sntp_retry_timer_cb")
        /\ (nc # NULL /\ nc' # nc) =>
             (ev' = "MG_EV_CLOSE" /\ nc' = NULL /\ nc \notin DOMAIN conn')]_vars

\* C1 witness: a timer fired while a session was active (the moment a second
\* session could have been created) and there is still exactly one session.
C1_Witness ==
  /\ ev = "mgos_sntp_retry_timer_cb"
  /\ InLog("close_request")
  /\ Cardinality(DOMAIN conn) = 1

\* C2 (as amended): retry_timeout_ms never decreases except when a reply
\* (MG_SNTP_REPLY) resets it to 0, never exceeds retry_max*1000, and, as long
\* as no reply has come (no success before or between the failures), is at
\* least min(retry_min, retry_max)*1000 from the first attempt on, hence
\* once a failure has occurred.
C2_BackoffBounds ==
  /\ [](/\ retry_timeout_ms <= cfg.retry_max * 1000
        /\ (~synced /\ fires >= 1) =>
             retry_timeout_ms >= Min(cfg.retry_min, cfg.retry_max) * 1000)
  /\ [][retry_timeout_ms' < retry_timeout_ms =>
          (ev' = "MG_SNTP_REPLY" /\ retry_timeout_ms' = 0)]_vars

\* C2 witness: an attempt has failed with retry_min > retry_max configured and
\* the backoff sits at retry_max*1000, below retry_min*1000.
C2_Witness ==
  /\ ~synced
  /\ cfg.retry_min > cfg.retry_max
  /\ \E c \in DOMAIN conn : conn[c].stage = "failed"
  /\ retry_timeout_ms = cfg.retry_max * 1000

\* C2 as originally stated (its bounds): once a failure has occurred the
\* backoff is within [retry_min*1000, retry_max*1000] for all configurations.
C2_Original ==
  /\ retry_timeout_ms <= cfg.retry_max * 1000
  /\ (~synced /\ fires >= 1) => retry_timeout_ms >= cfg.retry_min * 1000

\* C3: right after an MG_SNTP_REPLY the retry timer is disarmed and the
\* backoff is 0; from then on every timer that is armed has the base delay
\* update_interval*1000, jittered into [0.9, 1.1] times that value.
C3_SteadyAfterReply ==
  /\ ev = "MG_SNTP_REPLY" =>
       (synced /\ ~Armed /\ DOMAIN timers = {} /\ retry_timeout_ms = 0)
  /\ synced =>
       \A t \in DOMAIN timers :
         /\ timers[t].base = cfg.update_interval * 1000
         /\ InJitterRange(timers[t])

\* C3 witness: the close event after a reply has armed the next timer.
C3_Witness ==
  /\ ev = "MG_EV_CLOSE"
  /\ synced
  /\ InLog("mgos_set_timer")
  /\ Armed

\* C4 (the claim): a reply whose time could not be applied leaves synced
\* unchanged.
C4_ClockFailureKeepsSynced ==
  [][(ev' = "MG_SNTP_REPLY" /\ InLog("settimeofday_failed")') =>
       synced' = synced]_vars

\* C5 (as amended): on a reply whose time was applied the callbacks are
\* invoked most recently registered first, the reverse of registration order.
C5_ReverseRegistrationOrder ==
  (ev = "MG_SNTP_REPLY" /\ InLog("settimeofday")) =>
    [i \in 1..Len(notified) |-> notified[i][1]] = Reverse(registered)

\* C5 witness: a successful sync with at least two registered callbacks.
C5_Witness ==
  /\ ev = "MG_SNTP_REPLY"
  /\ InLog("settimeofday")
  /\ Len(notified) >= 2

\* C5 as originally stated: the callbacks are invoked in registration order.
C5_Original ==
  (ev = "MG_SNTP_REPLY" /\ InLog("settimeofday")) =>
    [i \in 1..Len(notified) |-> notified[i][1]] = registered

\* C6: on a reply whose time T was applied, every callback registered so far
\* is invoked exactly once with delta = T - t0, t0 being the clock before it
\* was set; and no registered callback is ever removed.
C6_NotifyAllWithDelta ==
  [][/\ (ev' = "MG_SNTP_REPLY" /\ InLog("settimeofday")') =>
          /\ Len(notified') = Len(registered)
          /\ \A r \in 1..Len(registered) :
               Cardinality({i \in 1..Len(notified') :
                              notified'[i][1] = registered[r]}) = 1
          /\ \A i \in 1..Len(notified') : notified'[i][2] = clock' - clock
     /\ \A r \in 1..Len(registered) :
          /\ r <= Len(registered') /\ registered'[r] = registered[r]
          /\ \E i \in 1..Len(time_change_cbs') :
               time_change_cbs'[i] = registered[r]]_vars

\* C6 witness: a successful sync that stepped the clock with at least two
\* callbacks registered.
C6_Witness ==
  /\ ev = "MG_SNTP_REPLY"
  /\ Len(notified) >= 2
  /\ notified[1][2] # 0

\* C7: the close event of a session clears s_state.nc first and then calls
\* mgos_sntp_retry exactly once, whatever the session's outcome was.
C7_CloseSchedulesOnce ==
  ev = "MG_EV_CLOSE" =>
    /\ nc = NULL
    /\ Len(log) >= 2
    /\ log[1] = "nc=NULL"
    /\ log[2] = "mgos_sntp_retry"
    /\ CountLog("mgos_sntp_retry") = 1

\* C7 witness: a session that ended without a reply has been closed.
C7_Witness ==
  /\ ev = "MG_EV_CLOSE"
  /\ ~synced
  /\ fires >= 1
  /\ nc = NULL

RECURSIVE Pow2(_)
Pow2(n) == IF n = 0 THEN 1 ELSE 2 * Pow2(n - 1)

C11_NoServerOrDisabled ==
  /\ (init_result # "none" /\ cfg.enable /\ ~cfg.server) =>
       init_result = "MGOS_INIT_SNTP_INIT_FAILED"
  /\ (init_result # "none" /\ ~cfg.enable) => init_result = "MGOS_INIT_OK"
  /\ ~(cfg.enable /\ cfg.server) =>
       /\ ~Armed
       /\ DOMAIN timers = {}
       /\ nc = NULL
       /\ DOMAIN conn = {}
       /\ ~net_handler

\* C11 witness: a link-up event came after the initialization failed for
\* want of a server.
C11_Witness ==
  /\ cfg.enable
  /\ ~cfg.server
  /\ init_result = "MGOS_INIT_SNTP_INIT_FAILED"
  /\ ev = "link_up_unhandled"

\* C12: mgos_sntp_retry, and with it the link-up handler, does nothing while
\* a timer is armed: a link-up event then leaves the pending timer and its
\* delay, retry_timeout_ms, synced and the session as they were, and the
\* mgos_sntp_retry of a close event leaves the timer, retry_timeout_ms and
\* synced as they were.
C12_RetryNoOpWhileArmed ==
  [][/\ (ev' = "mgos_sntp_net_ev" /\ Armed) =>
          UNCHANGED <<timers, retry_timer_id, retry_timeout_ms, synced, nc, conn,
                      fires>>
     /\ (ev' = "MG_EV_CLOSE" /\ Armed) =>
          UNCHANGED <<timers, retry_timer_id, retry_timeout_ms, synced>>]_vars

\* C12 witness: a link-up event was handled while a timer was armed and the
\* backoff was already running.
C12_Witness ==
  /\ ev = "mgos_sntp_net_ev"
  /\ log = <<"mgos_sntp_retry">>
  /\ Armed
  /\ ~synced
  /\ fires >= 1

\* C13: mgos_sntp_query calls mg_sntp_connect if and only if no session is
\* active.  A timer fire that finds a session active flags that session for
\* closing and creates none; the session stays tracked by s_state.nc, so its
\* close event is the one that frees the slot and calls mgos_sntp_retry, and
\* only then can a timer fire start a new session.
C13_QueryIffIdle ==
  /\ [](\A c \in DOMAIN conn : conn[c].close => c = nc)
  /\ [][ev' = "mgos_sntp_retry_timer_cb" =>
          IF nc # NULL
          THEN /\ ~InLog("mg_sntp_connect")'
               /\ nc' = nc
               /\ conn' = [conn EXCEPT ![nc].close = TRUE]
          ELSE /\ InLog("mg_sntp_connect")'
               /\ ~InLog("close_request")'
               /\ DOMAIN conn' = (IF nc' = NULL THEN {} ELSE {nc'})
               /\ nc' # NULL => conn'[nc'] = [close |-> FALSE, stage |-> "connecting"]]_vars

\* C13 witness: a timer fired while the session was still waiting for its
\* reply; the session is flagged for closing and still the tracked one.
C13_Witness ==
  /\ ev = "mgos_sntp_retry_timer_cb"
  /\ nc \in DOMAIN conn
  /\ conn[nc].stage = "sent"
  /\ conn[nc].close
  /\ ~InLog("mg_sntp_connect")

Max(a, b) == IF a > b THEN a ELSE b

\* A handler armed a timer through the backoff branch of mgos_sntp_retry.
BackoffArmed == InLog("mgos_set_timer") /\ ~synced /\ Armed

\* C14 (as amended): when synced is false and no timer is armed,
\* mgos_sntp_retry sets retry_timeout_ms to
\* min(retry_max*1000, max(retry_min*1000, retry_timeout_ms*2)) for every
\* prior value and every retry_min, retry_max, and arms the timer with that
\* value as the base delay.
C14_BackoffFormula ==
  [][BackoffArmed' =>
       /\ retry_timeout_ms' =
            Min(cfg.retry_max * 1000, Max(cfg.retry_min * 1000, retry_timeout_ms * 2))
       /\ retry_timer_id' \in DOMAIN timers'
       /\ timers'[retry_timer_id'].base = retry_timeout_ms']_vars

\* C14 witness: the backoff branch armed a timer with retry_min > retry_max
\* configured.
C14_Witness ==
  /\ BackoffArmed
  /\ cfg.retry_min > cfg.retry_max
  /\ retry_timeout_ms = cfg.retry_max * 1000

\* C14 as originally stated: the new value is
\* max(retry_min*1000, min(retry_max*1000, retry_timeout_ms*2)), also when
\* retry_min > retry_max.
C14_Original ==
  [][BackoffArmed' =>
       /\ retry_timeout_ms' =
            Max(cfg.retry_min * 1000, Min(cfg.retry_max * 1000, retry_timeout_ms * 2))
       /\ retry_timer_id' \in DOMAIN timers'
       /\ timers'[retry_timer_id'].base = retry_timeout_ms']_vars

\* A timer fire that found no session active and called mg_sntp_connect.
FreshAttempt == ev = "mgos_sntp_retry_timer_cb" /\ InLog("mg_sntp_connect")

\* A session is active and it is not the one started by the handler that
\* just ran.
SessionPending == nc # NULL /\ ~FreshAttempt

\* C15 (as amended): whenever a session is pending, whether or not its reply
\* ever arrives, a later timer fire finds the slot free and calls
\* mg_sntp_connect again (pending timers eventually fire, close requests are
\* eventually followed by the close event); that call starts a fresh session,
\* in stage connecting and tracked by s_state.nc, unless it returns NULL.
C15_StuckSessionRecovered ==
  /\ SessionPending ~> FreshAttempt
  /\ [][(FreshAttempt' /\ nc' # NULL) =>
          /\ nc = NULL
          /\ DOMAIN conn' = {nc'}
          /\ conn'[nc'] = [close |-> FALSE, stage |-> "connecting"]]_vars

\* C15 as originally stated: whenever a session is pending, a later timer
\* fire starts a fresh session, with nothing assumed but that pending timers
\* fire and that close requests are followed by the close event.
C15_Original == SessionPending ~> (FreshAttempt /\ nc # NULL)

\* C15 witness: the safety-net timer fired on a session still waiting for
\* its reply and asked it to close.
C15_Witness ==
  /\ ev = "mgos_sntp_retry_timer_cb"
  /\ InLog("close_request")
  /\ nc \in DOMAIN conn
  /\ conn[nc].stage \in {"connecting", "sent"}
  /\ Armed

\* A timer fire whose mg_sntp_connect returned no connection.
ConnectFailed == FreshAttempt /\ nc = NULL

\* C16: when mg_sntp_connect returns NULL, s_state.nc stays NULL, no
\* connection exists, and the timer callback leaves a retry timer armed and
\* pending in the timer service.
C16_ConnectFailureRearmed ==
  ConnectFailed =>
    /\ DOMAIN conn = {}
    /\ Armed
    /\ DOMAIN timers = {retry_timer_id}

\* C16 witness: the connect of the first attempt failed.
C16_Witness ==
  /\ ConnectFailed
  /\ ~synced
  /\ fires = 1

\* C17: once synced is true it stays true, and from then on, whatever
\* malformed replies, failures, cancellations and timer fires follow,
\* retry_timeout_ms stays 0 and every timer armed has the base delay
\* update_interval*1000.
C17_SyncedIsForever ==
  /\ [][synced => synced']_vars
  /\ [](synced =>
         /\ retry_timeout_ms = 0
         /\ \A t \in DOMAIN timers : timers[t].base = cfg.update_interval * 1000)

\* C17 witness: after a sync, a later attempt failed and was closed, and the
\* pending timer is a steady-state one.
C17_Witness ==
  /\ synced
  /\ \E c \in DOMAIN conn : conn[c].stage \in {"failed", "malformed"}
  /\ Armed
  /\ retry_timer_id \in DOMAIN timers
  /\ timers[retry_timer_id].base = cfg.update_interval * 1000

\* C18: a malformed-reply or failure event only flags the session for
\* closing: synced, retry_timeout_ms, the armed timer and s_state.nc stay as
\* they were, no callback is invoked and mgos_sntp_retry is not called.
C18_ErrorOnlyRequestsClose ==
  [][ev' \in {"MG_SNTP_MALFORMED_REPLY", "MG_SNTP_FAILED"} =>
       /\ UNCHANGED <<synced, retry_timeout_ms, retry_timer_id, timers, nc,
                      time_change_cbs, clock>>
       /\ notified' = <<>>
       /\ log' = <<"close_request">>
       /\ DOMAIN conn' = DOMAIN conn
       /\ \A c \in DOMAIN conn : conn'[c].close]_vars

\* C18 witness: a failure event arrived after the clock had been synced,
\* with a timer armed.
C18_Witness ==
  /\ ev = "MG_SNTP_FAILED"
  /\ synced
  /\ Armed
  /\ nc \in DOMAIN conn
  /\ conn[nc].close

\* The scheduler has something that will wake it up: a timer or a session.
Busy == Armed \/ nc # NULL

\* C19: with the feature enabled and a server configured, every handled
\* link-up event leaves the scheduler busy, and once busy it stays busy: in
\* every state between handlers a timer is armed or a session is active.  The
\* only states without a timer are those of a session that got its reply and
\* has not been closed yet.
C19_NeverIdle ==
  /\ [][ev' = "mgos_sntp_net_ev" => Busy']_vars
  /\ [][Busy => Busy']_vars
  /\ []((Busy /\ ~Armed) =>
         /\ nc \in DOMAIN conn
         /\ conn[nc].stage = "replied"
         /\ conn[nc].close
         /\ synced)
  /\ [](Armed => retry_timer_id \in DOMAIN timers)

\* C19 witness: a session got its reply, which cleared the timer, and is
\* waiting for its close event.
C19_Witness ==
  /\ cfg.enable
  /\ cfg.server
  /\ ~Armed
  /\ nc \in DOMAIN conn
  /\ conn[nc].stage = "replied"

\* C20: at most one timer is pending in the timer service, and
\* retry_timer_id is valid exactly when one is pending and then names it; so
\* no timer is armed while another is pending and no pending timer is
\* untracked.
C20_OneTrackedTimer ==
  /\ Cardinality(DOMAIN timers) <= 1
  /\ DOMAIN timers = (IF Armed THEN {retry_timer_id} ELSE {})

\* C20 witness: a reply cleared the pending safety-net timer and forgot its
\* id.
C20_Witness ==
  /\ ev = "MG_SNTP_REPLY"
  /\ InLog("mgos_clear_timer")
  /\ ~Armed
  /\ DOMAIN timers = {}

====
